---- MODULE Spec2Model ----
(***************************************************************************)
(* Model of drama_merge_utils.py: the consistency checker                  *)
(* (check_video_parameters_consistency), the merge step                    *)
(* (merge_videos_ffmpeg) and the grouping orchestrator (merge_videos).     *)
(*                                                                         *)
(* Two specifications share the variables:                                 *)
(*   Spec      - runs of merge_videos over a source directory, an output   *)
(*               directory and the answers of the external tools;          *)
(*   SpecCheck - one call of check_video_parameters_consistency on a list  *)
(*               of files whose probe results are drawn from ProbePool.    *)
(***************************************************************************)
EXTENDS Integers, Sequences, FiniteSets, TLC

VARIABLES
    \* ---- inputs of merge_videos (the `data` dict and the file systems) ----
    source_dir,        \* [exists, videos, junk]: the source directory
    fduration,         \* file name -> what get_video_duration returns for it
    fsize,             \* file name -> what os.path.getsize returns for it
    max_duration_min,  \* data['max_duration'], minutes
    max_size_mb,       \* data['max_size'], MB
    episode_start,     \* int(data['episode'])
    out_state,         \* [dir, parent, creatable]: existence of output_path / its dirname
    out_files,         \* files of the output directory: name -> content
    \* ---- locals of merge_videos ----
    pc,                \* "start" | "loop" | "flush" | "done" | "raised"
    file_list,
    idx,               \* position of the for loop in file_list (next file)
    current_group,
    current_duration,
    current_size,
    episode_num,
    results,
    \* ---- observation of the calls made ----
    merges,            \* one record per call of merge_videos_ffmpeg, in call order
    probes,            \* files passed to get_video_duration, in call order
    run,               \* number of the current invocation of merge_videos
    \* ---- one call of check_video_parameters_consistency (SpecCheck) ----
    cfiles,            \* the file_list argument
    cmeta,             \* file name -> what get_video_metadata returns for it
    cres               \* the call's outcome, or NoCall

vars == <<source_dir, fduration, fsize, max_duration_min, max_size_mb,
          episode_start, out_state, out_files, pc, file_list, idx,
          current_group, current_duration, current_size, episode_num,
          results, merges, probes, run, cfiles, cmeta, cres>>

inputVars == <<source_dir, fduration, fsize, max_duration_min, max_size_mb,
               episode_start, out_state>>

runVars == <<out_files, pc, file_list, idx, current_group, current_duration,
             current_size, episode_num, results, merges, probes, run>>

checkVars == <<cfiles, cmeta, cres>>

(***************************************************************************)
(* Bounds                                                                  *)
(***************************************************************************)
MaxFiles == 3      \* most video files in the source directory
MaxRuns == 2       \* invocations of merge_videos on the same inputs
MaxList == 3       \* longest list handed to the checker in SpecCheck

(***************************************************************************)
(* get_video_metadata: the dict of present fields, or None                 *)
(***************************************************************************)
Keys == <<"width", "height", "frame_rate", "video_codec", "audio_codec">>

KeySet == {Keys[i] : i \in 1..Len(Keys)}

\* a probe answer: ok = FALSE is `return None`; ok = TRUE carries the dict
\* left after the None values were filtered out (possibly empty)
None == [ok |-> FALSE, md |-> <<>>]

Meta(d) == [ok |-> TRUE, md |-> d]

FullProfile == [k \in KeySet |-> "a"]

\* FullProfile with key k reported with another value
Changed(d, k) == [x \in DOMAIN d |-> IF x = k THEN "b" ELSE d[x]]

\* FullProfile without key k (the stream did not report it)
Without(d, k) == [x \in DOMAIN d \ {k} |-> d[x]]

ProbePool ==
    {None, Meta(<<>>), Meta(FullProfile)}
    \cup {Meta(Changed(FullProfile, k)) : k \in KeySet}
    \cup {Meta(Without(FullProfile, k)) : k \in KeySet}
    \cup {Meta(Changed(Changed(FullProfile, "video_codec"), "audio_codec")),
          Meta(Changed(Without(FullProfile, "audio_codec"), "width")),
          Meta(Changed(Without(FullProfile, "width"), "height"))}

\* Python truthiness of a probe answer: None and {} are both falsy
Truthy(p) == p.ok /\ DOMAIN p.md # {}

(***************************************************************************)
(* check_video_parameters_consistency                                      *)
(***************************************************************************)
\* variant: the comparison stops at the first differing key
inconsistent_first_only(base, md) ==
    LET differs(k) == k \in DOMAIN base /\ k \in DOMAIN md /\ base[k] # md[k]
        sel == SelectSeq(Keys, differs)
    IN  IF sel = <<>> THEN <<>> ELSE << <<sel[1], base[sel[1]], md[sel[1]]>> >>

\* the `inconsistent` list built for one file: every key present on both
\* sides whose values differ, in key order, with both values
inconsistent(base, md) ==
    LET differs(k) == k \in DOMAIN base /\ k \in DOMAIN md /\ base[k] # md[k]
        sel == SelectSeq(Keys, differs)
    IN  [i \in 1..Len(sel) |-> <<sel[i], base[sel[i]], md[sel[i]]>>]

\* the for loop over file_list[1:]: the index of the file at which the loop
\* returns False, or 0 when it runs to the end
RECURSIVE FirstRejected(_, _, _, _)
FirstRejected(files, meta, base, i) ==
    IF i > Len(files) THEN 0
    ELSE IF ~Truthy(meta[files[i]]) THEN i
    ELSE IF inconsistent(base, meta[files[i]].md) # <<>> THEN i
    ELSE FirstRejected(files, meta, base, i + 1)

\* outcome: ok, the message (kind, file, fields) and the files probed
CheckResult(ok, kind, file, fields, probed) ==
    [ok |-> ok, kind |-> kind, file |-> file, fields |-> fields, probed |-> probed]

check_video_parameters_consistency(files, meta) ==
    IF files = <<>> THEN CheckResult(TRUE, "nothing_to_check", 0, <<>>, <<>>)
    ELSE IF ~Truthy(meta[files[1]])
    THEN CheckResult(FALSE, "no_base_metadata", files[1], <<>>, <<files[1]>>)
    ELSE
        LET base == meta[files[1]].md
            i == FirstRejected(files, meta, base, 2)
        IN  IF i = 0
            THEN CheckResult(TRUE, "all_consistent", 0, <<>>, files)
            ELSE IF ~Truthy(meta[files[i]])
            THEN CheckResult(FALSE, "no_metadata", files[i], <<>>,
                             SubSeq(files, 1, i))
            ELSE CheckResult(FALSE, "inconsistent", files[i],
                             inconsistent(base, meta[files[i]].md),
                             SubSeq(files, 1, i))

NoCall == [ok |-> FALSE, kind |-> "no_call", file |-> 0, fields |-> <<>>,
           probed |-> <<>>]


(***************************************************************************)
(* get_video_files                                                         *)
(***************************************************************************)
video_extensions == {".mp4", ".mkv", ".mov", ".avi", ".flv", ".wmv"}

\* str.lower() on the extensions the model uses
Lower(ext) == IF ext = ".MKV" THEN ".mkv" ELSE ext

\* list.sort() of a set of names
RECURSIVE Sorted(_)
Sorted(S) ==
    IF S = {} THEN <<>>
    ELSE LET m == CHOOSE x \in S : \A y \in S : x <= y
         IN  <<m>> \o Sorted(S \ {m})

get_video_files(dir) ==
    IF ~dir.exists THEN <<>>
    ELSE Sorted({e.name : e \in {x \in dir.entries :
                     Lower(x.ext) \in video_extensions /\ x.isfile}})

(***************************************************************************)
(* Output naming                                                           *)
(***************************************************************************)
DigitChar == <<"0", "1", "2", "3", "4", "5", "6", "7", "8", "9">>

RECURSIVE Digits(_)
Digits(n) ==
    IF n < 10 THEN <<DigitChar[n + 1]>>
    ELSE Digits(n \div 10) \o <<DigitChar[(n % 10) + 1]>>

\* f"{episode_num:02d}" for episode_num >= 0
Format02d(n) == IF n < 10 THEN <<"0">> \o Digits(n) ELSE Digits(n)

show_name == "show"

season == "01"

\* f"{show_name}_S{season}E{episode}.mp4"
OutputFilename(episode) == <<show_name, "_S", season, "E">> \o episode \o <<".mp4">>

ManifestName == <<"file_list.txt">>

\* the output_path argument, a relative path
output_path == <<"output_dir">>

\* os.path.join(output_path, name) for a relative name
Join(name) == output_path \o <<"/">> \o name

(***************************************************************************)
(* merge_videos_ffmpeg                                                     *)
(***************************************************************************)
Put(files, name, content) ==
    [n \in DOMAIN files \cup {name} |-> IF n = name THEN content ELSE files[n]]

Remove(files, name) == [n \in DOMAIN files \ {name} |-> files[n]]

OldContent == [kind |-> "old", of |-> <<>>]

\* what subprocess.run(ffmpeg ...) does: exit 0 with the output written,
\* exit # 0 with no output, TimeoutExpired after the child was killed (a
\* partial output is left), or another exception (ffmpeg not found)
ToolOutcomes == {"ok", "nonzero", "timeout", "error"}

ToolOutput(files, name, group, tool) ==
    CASE tool = "ok" -> Put(files, name, [kind |-> "merged", of |-> group])
      [] tool = "timeout" ->
             Put(files, name, [kind |-> "partial", of |-> group])
      [] OTHER -> files

\* variant: the handlers return without removing the manifest
HandlerCleanup_missing(files) == files

\* the `except` handlers: if os.path.exists(temp_list_file): os.remove(...)
HandlerCleanup(files) ==
    IF ManifestName \in DOMAIN files THEN Remove(files, ManifestName) ELSE files

\* outcome of one call: raised (an exception left the function), the returned
\* pair (ok, msg), the directory state and files afterwards, and what the call
\* did on the way (checker outcome, manifest written, tool invoked)
StepResult(raised, ok, msg, st, files, chk, manifest, tool) ==
    [raised |-> raised, ok |-> ok, msg |-> msg, st |-> st, files |-> files,
     check |-> chk, manifest |-> manifest, tool |-> tool]

CheckMessage(chk) == [kind |-> chk.kind, file |-> chk.file, fields |-> chk.fields]

\* variant: the collision check never finds the output
OutputExists_never(st, files, name) == FALSE

\* os.path.exists(full_output_path)
OutputExists(st, files, name) == st.dir /\ name \in DOMAIN files

\* variant: the checker's answer is not acted upon
ParamsRejected_ignored(chk) == FALSE

\* `if not params_ok` on the checker's answer
ParamsRejected(chk) == ~chk.ok

\* os.path.exists(os.path.dirname(output_path)): output_path does not end in
\* a separator, so its dirname is the parent of the output directory
DirnameExists(st) == st.parent

\* os.makedirs(os.path.dirname(output_path), exist_ok=True), when it succeeds
MakeDirs(st) == [st EXCEPT !.parent = TRUE]

merge_videos_ffmpeg(group, episode, st, files, meta, tool) ==
    IF group = <<>>
    THEN StepResult(FALSE, FALSE, <<"no_files">>, st, files, NoCall, FALSE, "not_invoked")
    ELSE
    LET chk == check_video_parameters_consistency(group, meta)
        output_filename == OutputFilename(episode)
        full_output_path == Join(output_filename)
        st1 == IF ~DirnameExists(st) THEN MakeDirs(st) ELSE st
        written == Put(files, ManifestName, [kind |-> "manifest", of |-> group])
        produced == ToolOutput(written, output_filename, group, tool)
    IN  IF ParamsRejected(chk)
        THEN StepResult(FALSE, FALSE, <<"param_check_failed", CheckMessage(chk)>>,
                        st, files, chk, FALSE, "not_invoked")
        ELSE IF ~DirnameExists(st) /\ ~st.creatable
        THEN \* os.makedirs raises, outside the try statement
             StepResult(TRUE, FALSE, <<"makedirs_raised">>, st, files, chk,
                        FALSE, "not_invoked")
        ELSE IF OutputExists(st1, files, output_filename)
        THEN StepResult(FALSE, FALSE, <<"output_exists", full_output_path>>,
                        st1, files, chk, FALSE, "not_invoked")
        ELSE IF ~st1.dir
        THEN \* open(temp_list_file, 'w') raises: caught by `except Exception`
             StepResult(FALSE, FALSE, <<"merge_error">>, st1,
                        HandlerCleanup(files), chk, FALSE, "not_invoked")
        ELSE CASE tool = "ok" ->
                  StepResult(FALSE, TRUE, full_output_path, st1,
                             Remove(produced, ManifestName), chk, TRUE, tool)
               [] tool = "nonzero" ->
                  StepResult(FALSE, FALSE, <<"ffmpeg_failed">>, st1,
                             Remove(produced, ManifestName), chk, TRUE, tool)
               [] tool = "timeout" ->
                  StepResult(FALSE, FALSE, <<"ffmpeg_timeout">>, st1,
                             HandlerCleanup(produced), chk, TRUE, tool)
               [] OTHER ->
                  StepResult(FALSE, FALSE, <<"merge_error">>, st1,
                             HandlerCleanup(produced), chk, TRUE, tool)


(***************************************************************************)
(* merge_videos: inputs                                                    *)
(***************************************************************************)
\* seconds in a minute: max_duration is given in minutes, durations in seconds
Minute == 60

MB == 1024 * 1024

\* os.path.getsize raising OSError (the file vanished after the listing)
Unreadable == 0 - 1

\* (duration in seconds as probed, size in bytes) of a source file; a
\* duration of 0 is also what a failed duration probe returns
FileKinds == {<<Minute, MB>>, <<3 * Minute, 3 * MB>>, <<0, MB>>,
              <<Minute, Unreadable>>}

VideoEntries(n) ==
    {[name |-> i, ext |-> IF i = 2 THEN ".MKV" ELSE ".mp4", isfile |-> TRUE] :
        i \in 1..n}

\* entries that get_video_files must skip: a text file and a directory whose
\* name ends in a video extension
Junk == {[name |-> 100, ext |-> ".txt", isfile |-> TRUE],
         [name |-> 101, ext |-> ".MKV", isfile |-> FALSE]}

SourceDirs ==
    {[exists |-> FALSE, listable |-> FALSE, entries |-> {}],
     [exists |-> TRUE, listable |-> FALSE, entries |-> {}],
     [exists |-> TRUE, listable |-> TRUE, entries |-> {}]}
    \cup {[exists |-> TRUE, listable |-> TRUE,
           entries |-> VideoEntries(n) \cup Junk] : n \in 0..MaxFiles}

VideoNames(dir) == {e.name : e \in {x \in dir.entries : x.name <= MaxFiles}}

\* dir, parent: the output directory and its parent exist; creatable:
\* os.makedirs can succeed
Present == [dir |-> TRUE, parent |-> TRUE, creatable |-> TRUE]

Missing(parent, creatable) ==
    [dir |-> FALSE, parent |-> parent, creatable |-> creatable]

\* the output directory before the first run, as <<state, files>>: it exists
\* (empty, or holding an earlier output or a file named file_list.txt), or it
\* is missing, with its parent present or missing, creatable or not
OutputDirs(start) ==
    {<<Present, f>> :
        f \in {<<>>,
               Put(<<>>, OutputFilename(Format02d(start)), OldContent),
               Put(<<>>, OutputFilename(Format02d(start + 1)), OldContent),
               Put(<<>>, ManifestName, OldContent)}}
    \cup {<<Missing(TRUE, TRUE), <<>>>>,
          <<Missing(FALSE, TRUE), <<>>>>,
          <<Missing(FALSE, FALSE), <<>>>>}

\* <<starting episode, output directory>>: every output directory with the
\* default start, an empty one with a start whose labels pass two digits
StartsAndOutputs ==
    {<<1, o>> : o \in OutputDirs(1)} \cup {<<99, <<Present, <<>>>>>>}

DurationLimits == {0, 2}

SizeLimits == {0, 2}

\* probe answers get_video_metadata gives during a run of merge_videos
RunProbePool == {None, Meta(FullProfile), Meta(Changed(FullProfile, "width"))}

\* float(max_duration_str) * 60
max_duration == max_duration_min * Minute

\* float(max_size_str) * 1024 * 1024
max_size == max_size_mb * MB

CheckIdle == cfiles = <<>> /\ cmeta = <<>> /\ cres = NoCall

Init ==
    /\ source_dir \in SourceDirs
    /\ \E kind \in [VideoNames(source_dir) -> FileKinds] :
          /\ fduration = [f \in DOMAIN kind |-> kind[f][1]]
          /\ fsize = [f \in DOMAIN kind |-> kind[f][2]]
    /\ max_duration_min \in DurationLimits
    /\ max_size_mb \in SizeLimits
    /\ \E so \in StartsAndOutputs :
          /\ episode_start = so[1]
          /\ out_state = so[2][1]
          /\ out_files = so[2][2]
    /\ pc = "start"
    /\ file_list = <<>>
    /\ idx = 0
    /\ current_group = <<>>
    /\ current_duration = 0
    /\ current_size = 0
    /\ episode_num = 0
    /\ results = <<>>
    /\ merges = <<>>
    /\ probes = <<>>
    /\ run = 1
    /\ CheckIdle

(***************************************************************************)
(* merge_videos: the steps of one invocation                               *)
(***************************************************************************)
\* variant: only successful merges are recorded
RecordResult_success_only(res, r) ==
    IF r.ok THEN Append(res, [ok |-> r.ok, msg |-> r.msg]) ELSE res

\* results.append((success, result))
RecordResult(res, r) == Append(res, [ok |-> r.ok, msg |-> r.msg])

\* variant: the file that triggered the sealing is not carried over
ResetAndAppend_drops_file(file_path) == <<>>

\* current_group = [] followed by current_group.append(file_path)
ResetAndAppend(file_path) == <<file_path>>

\* variant: the episode number advances only after a successful merge
EpisodeAfterMerge_on_success(n, success) == IF success THEN n + 1 ELSE n

\* episode_num += 1, whatever `success` was
EpisodeAfterMerge(n, success) == n + 1

\* variant: an empty list is returned instead of the sentinel
NoFilesResult_empty == <<>>

\* the sentinel returned when get_video_files finds nothing
NoFilesResult == <<[ok |-> FALSE, msg |-> <<"no_files">>]>>

\* variant: without the os.path.exists test a missing directory raises too
ListdirRaises_unguarded(dir) == ~dir.listable

\* os.listdir raises on a directory that exists and cannot be listed
ListdirRaises(dir) == dir.exists /\ ~dir.listable

\* line 341: os.listdir raises in get_video_files, the exception leaves
\* merge_videos
StartListdirRaises ==
    /\ pc = "start"
    /\ ListdirRaises(source_dir)
    /\ pc' = "raised"
    /\ file_list' = <<>>
    /\ results' = <<>>
    /\ merges' = <<>>
    /\ probes' = <<>>
    /\ current_group' = <<>>
    /\ current_duration' = 0
    /\ current_size' = 0
    /\ UNCHANGED <<inputVars, out_files, idx, episode_num, run, checkVars>>

\* lines 341-349: list the files; return the sentinel when there are none
Start ==
    /\ pc = "start"
    /\ ~ListdirRaises(source_dir)
    /\ LET listed == get_video_files(source_dir)
       IN  /\ file_list' = listed
           /\ IF listed = <<>>
              THEN /\ results' = NoFilesResult
                   /\ pc' = "done"
                   /\ UNCHANGED <<idx, episode_num>>
              ELSE /\ results' = <<>>
                   /\ pc' = "loop"
                   /\ idx' = 1
                   /\ episode_num' = episode_start
    /\ current_group' = <<>>
    /\ current_duration' = 0
    /\ current_size' = 0
    /\ merges' = <<>>
    /\ probes' = <<>>
    /\ UNCHANGED <<inputVars, out_files, run, checkVars>>

\* variant: the accumulated duration is left out of the comparison
would_exceed_duration_single(file_duration) ==
    max_duration > 0 /\ file_duration > max_duration

would_exceed_duration(file_duration) ==
    max_duration > 0 /\ (current_duration + file_duration) > max_duration

\* variant: the file's own size is left out of the comparison
would_exceed_size_before_file(file_size) ==
    max_size > 0 /\ current_size > max_size

would_exceed_size(file_size) ==
    max_size > 0 /\ (current_size + file_size) > max_size

\* variant: only the duration threshold seals a group
MustSeal_duration_only(file_path) ==
    current_group # <<>> /\ would_exceed_duration(fduration[file_path])

MustSeal(file_path) ==
    /\ current_group # <<>>
    /\ \/ would_exceed_duration(fduration[file_path])
       \/ would_exceed_size(fsize[file_path])

MergeRecord(group, episode, r) ==
    [files |-> group, episode |-> episode, ok |-> r.ok, msg |-> r.msg,
     raised |-> r.raised, check |-> r.check, manifest |-> r.manifest,
     tool |-> r.tool]

AfterFile == IF idx + 1 > Len(file_list) THEN "flush" ELSE "loop"

\* lines 354: os.path.getsize raises, the exception leaves merge_videos
LoopGetsizeRaises ==
    /\ pc = "loop"
    /\ fsize[file_list[idx]] = Unreadable
    /\ pc' = "raised"
    /\ UNCHANGED <<inputVars, out_files, file_list, idx, current_group,
                   current_duration, current_size, episode_num, results,
                   merges, probes, run, checkVars>>

\* one iteration of the for loop that does not seal (lines 354-362, 377-379)
LoopAppend ==
    /\ pc = "loop"
    /\ LET file_path == file_list[idx]
       IN  /\ fsize[file_path] # Unreadable
           /\ ~MustSeal(file_path)
           /\ probes' = Append(probes, file_path)
           /\ current_group' = Append(current_group, file_path)
           /\ current_duration' = current_duration + fduration[file_path]
           /\ current_size' = current_size + fsize[file_path]
    /\ idx' = idx + 1
    /\ pc' = AfterFile
    /\ UNCHANGED <<inputVars, out_files, file_list, episode_num, results,
                   merges, run, checkVars>>

\* one iteration of the for loop that seals the current group first
\* (lines 354-379): the merge step runs, its result is recorded, the
\* accumulators are reset and the file opens the next group
LoopSeal ==
    /\ pc = "loop"
    /\ LET file_path == file_list[idx]
           episode_str == Format02d(episode_num)
       IN  /\ fsize[file_path] # Unreadable
           /\ MustSeal(file_path)
           /\ probes' = Append(probes, file_path)
           /\ \E meta \in [{current_group[i] : i \in 1..Len(current_group)} -> RunProbePool],
                 tool \in ToolOutcomes :
                 LET r == merge_videos_ffmpeg(current_group, episode_str,
                                              out_state, out_files, meta, tool)
                 IN  /\ merges' = Append(merges, MergeRecord(current_group, episode_str, r))
                     /\ out_state' = r.st
                     /\ out_files' = r.files
                     /\ IF r.raised
                        THEN /\ pc' = "raised"
                             /\ UNCHANGED <<results, current_group, current_duration,
                                            current_size, episode_num, idx>>
                        ELSE /\ results' = RecordResult(results, r)
                             /\ current_group' = ResetAndAppend(file_path)
                             /\ current_duration' = 0 + fduration[file_path]
                             /\ current_size' = 0 + fsize[file_path]
                             /\ episode_num' = EpisodeAfterMerge(episode_num, r.ok)
                             /\ idx' = idx + 1
                             /\ pc' = AfterFile
    /\ UNCHANGED <<source_dir, fduration, fsize, max_duration_min, max_size_mb,
                   episode_start, file_list, run, checkVars>>

\* lines 382-389: the final flush and the return
Flush ==
    /\ pc = "flush"
    /\ IF current_group = <<>>
       THEN /\ pc' = "done"
            /\ UNCHANGED <<out_state, out_files, results, merges>>
       ELSE LET episode_str == Format02d(episode_num)
            IN  \E meta \in [{current_group[i] : i \in 1..Len(current_group)} -> RunProbePool],
                   tool \in ToolOutcomes :
                   LET r == merge_videos_ffmpeg(current_group, episode_str,
                                                out_state, out_files, meta, tool)
                   IN  /\ merges' = Append(merges, MergeRecord(current_group, episode_str, r))
                       /\ out_state' = r.st
                       /\ out_files' = r.files
                       /\ IF r.raised
                          THEN pc' = "raised" /\ UNCHANGED results
                          ELSE /\ results' = RecordResult(results, r)
                               /\ pc' = "done"
    /\ UNCHANGED <<source_dir, fduration, fsize, max_duration_min, max_size_mb,
                   episode_start, file_list, idx, current_group,
                   current_duration, current_size, episode_num, probes, run,
                   checkVars>>

AllSucceeded == results # <<>> /\ \A k \in 1..Len(results) : results[k].ok

\* the caller invokes merge_videos again with the same form data after a run
\* in which every group was merged (button_click_handler)
Rerun ==
    /\ pc = "done"
    /\ AllSucceeded
    /\ run < MaxRuns
    /\ run' = run + 1
    /\ pc' = "start"
    /\ UNCHANGED <<inputVars, out_files, file_list, idx, current_group,
                   current_duration, current_size, episode_num, results,
                   merges, probes, checkVars>>

Next == StartListdirRaises \/ Start \/ LoopGetsizeRaises \/ LoopAppend \/ LoopSeal \/ Flush \/ Rerun

Spec == Init /\ [][Next]_vars

(***************************************************************************)
(* SpecCheck: one call of check_video_parameters_consistency               *)
(***************************************************************************)
RunIdle ==
    /\ source_dir = [exists |-> FALSE, listable |-> FALSE, entries |-> {}]
    /\ fduration = <<>>
    /\ fsize = <<>>
    /\ max_duration_min = 0
    /\ max_size_mb = 0
    /\ episode_start = 1
    /\ out_state = Present
    /\ out_files = <<>>
    /\ pc = "idle"
    /\ file_list = <<>>
    /\ idx = 0
    /\ current_group = <<>>
    /\ current_duration = 0
    /\ current_size = 0
    /\ episode_num = 0
    /\ results = <<>>
    /\ merges = <<>>
    /\ probes = <<>>
    /\ run = 0

InitCheck ==
    /\ RunIdle
    /\ \E n \in 0..MaxList :
          /\ cfiles = [i \in 1..n |-> i]
          /\ cmeta \in [1..n -> ProbePool]
    /\ cres = NoCall

CheckCall ==
    /\ cres = NoCall
    /\ cres' = check_video_parameters_consistency(cfiles, cmeta)
    /\ UNCHANGED <<inputVars, runVars, cfiles, cmeta>>

NextCheck == CheckCall

SpecCheck == InitCheck /\ [][NextCheck]_vars


(***************************************************************************)
(* Properties of merge_videos (Spec)                                       *)
(***************************************************************************)
RECURSIVE ConcatFiles(_)
ConcatFiles(ms) ==
    IF ms = <<>> THEN <<>> ELSE Head(ms).files \o ConcatFiles(Tail(ms))

RECURSIVE SumOver(_, _)
SumOver(f, fs) == IF fs = <<>> THEN 0 ELSE f[Head(fs)] + SumOver(f, Tail(fs))

Last(q) == q[Len(q)]

\* C1: when merge_videos returns, the groups handed to the merge step,
\* concatenated in sealing order, are exactly the input file list: same order,
\* no file twice, no file missing.
C1_GroupsPartitionFileList ==
    pc = "done" => ConcatFiles(merges) = file_list

C1_Witness ==
    /\ pc = "done"
    /\ Len(file_list) = 3
    /\ Len(merges) = 2
    /\ Len(merges[1].files) = 2

\* C2: every group handed to the merge step has one file only, or stays within
\* each enabled threshold: total duration <= maxDuration when maxDuration > 0,
\* total size <= maxSize when maxSize > 0.
C2_GroupsWithinThresholds ==
    \A k \in 1..Len(merges) :
        LET g == merges[k].files
        IN  /\ max_duration > 0 => (Len(g) = 1 \/ SumOver(fduration, g) <= max_duration)
            /\ max_size > 0 => (Len(g) = 1 \/ SumOver(fsize, g) <= max_size)

C2_Witness ==
    /\ max_duration > 0
    /\ Len(merges) >= 2
    /\ Len(merges[1].files) = 2
    /\ SumOver(fduration, merges[1].files) = max_duration
    /\ SumOver(fduration, merges[2].files) > max_duration

\* C3: the k-th sealed group (k = 0, 1, ...) is merged under episode number
\* startEpisode + k, whether the earlier merge steps succeeded or failed.
C3_EpisodesConsecutive ==
    \A k \in 1..Len(merges) : merges[k].episode = Format02d(episode_start + (k - 1))

C3_Witness ==
    /\ Len(merges) = 3
    /\ ~merges[1].ok
    /\ merges[2].ok
    /\ ~merges[3].ok
    /\ episode_start = 1

\* C4: for a non-empty file list the run is never cut short by a group's
\* failure (consistency failure, output collision, tool non-zero exit, tool
\* timeout): every merge step that returns is recorded, in group order, the
\* loop goes on to the next file, and when merge_videos returns every file has
\* been sealed into a group and there is one result per group.
C4_FailuresNeverAbort ==
    /\ pc \in {"loop", "flush", "done"} /\ file_list # <<>> =>
          /\ Len(results) = Len(merges)
          /\ \A k \in 1..Len(merges) :
                results[k] = [ok |-> merges[k].ok, msg |-> merges[k].msg]
    /\ pc = "done" /\ file_list # <<>> =>
          /\ merges # <<>>
          /\ ConcatFiles(merges) = file_list
    /\ pc = "raised" =>
          \* only an OS error leaves the run: never a failure of a group
          \/ file_list = <<>> /\ ListdirRaises(source_dir)
          \/ merges # <<>> /\ Last(merges).raised /\ ~DirnameExists(out_state)
          \/ file_list # <<>> /\ fsize[file_list[idx]] = Unreadable
    /\ pc \in {"start", "loop", "flush"} => ENABLED Next

C4_Witness ==
    /\ pc = "done"
    /\ Len(results) = 3
    /\ ~results[1].ok /\ results[1].msg[1] = "output_exists"
    /\ ~results[2].ok /\ results[2].msg[1] = "ffmpeg_timeout"
    /\ results[3].ok

\* a merge step has just run: merges grew by one record
MergeStepTaken == Len(merges') = Len(merges) + 1

\* C5: when the output path of a consistent group already exists, the merge
\* step returns Failure "output exists", does not invoke the tool and leaves
\* the files of the output directory as they were; and a re-run after a fully
\* successful run returns a Failure for every group and changes no file.
C5_ExistingOutputKept ==
    [][/\ (/\ MergeStepTaken
           /\ Last(merges').check.ok
           /\ OutputFilename(Last(merges').episode) \in DOMAIN out_files)
          => /\ ~Last(merges').raised
             /\ Last(results') = [ok |-> FALSE,
                                  msg |-> <<"output_exists",
                                            Join(OutputFilename(Last(merges').episode))>>]
             /\ Last(merges').tool = "not_invoked"
             /\ out_files' = out_files
       /\ (run >= 2 /\ pc \in {"start", "loop", "flush"})
          => /\ out_files' = out_files
             /\ pc' # "raised"
             /\ \A k \in 1..Len(results') : ~results'[k].ok
             /\ \A k \in 1..Len(merges') : merges'[k].tool = "not_invoked"
      ]_vars

C5_Witness ==
    /\ run = 2
    /\ pc = "done"
    /\ Len(results) = 2
    /\ ~results[1].ok /\ results[1].msg[1] = "output_exists"
    /\ ~results[2].ok /\ results[2].msg[1] = "output_exists"
    /\ \A n \in DOMAIN out_files : out_files[n].kind = "merged"

\* C6: when the checker returns false for a group, the merge step returns a
\* Failure made of a prefix and the checker's message, the tool is not
\* invoked, no manifest is written and the output directory is left as it was.
C6_RejectedGroupNotMerged ==
    [][(MergeStepTaken /\ ~Last(merges').check.ok)
          => /\ ~Last(merges').raised
             /\ Last(results') = [ok |-> FALSE,
                                  msg |-> <<"param_check_failed",
                                            CheckMessage(Last(merges').check)>>]
             /\ Last(merges').tool = "not_invoked"
             /\ ~Last(merges').manifest
             /\ out_files' = out_files
             /\ out_state' = out_state
      ]_vars

C6_Witness ==
    \E k \in 1..Len(merges) :
        /\ merges[k].check.kind = "inconsistent"
        /\ Len(merges[k].files) >= 2
        /\ ~results[k].ok
        /\ results[k].msg[1] = "param_check_failed"
        /\ out_files = <<>>

\* the source directory holds no regular file with a video extension
NoEligibleFile ==
    \/ ~source_dir.exists
    \/ \A e \in source_dir.entries :
          ~(e.isfile /\ \E x \in video_extensions : Lower(e.ext) = x)

\* C7: with no eligible media file in the source directory merge_videos
\* returns exactly one Failure entry ("no files to merge") without probing
\* anything and without a merge step; and it never returns without having
\* sealed a group in any other case.
C7_EmptyDirectorySentinel ==
    pc = "done" =>
        IF NoEligibleFile
        THEN /\ results = <<[ok |-> FALSE, msg |-> <<"no_files">>]>>
             /\ merges = <<>>
             /\ probes = <<>>
        ELSE /\ merges # <<>>
             /\ probes # <<>>
             /\ \A k \in 1..Len(results) :
                   results[k].ok \/ results[k].msg[1] # "no_files"

C7_Witness ==
    /\ pc = "done"
    /\ source_dir.exists
    /\ source_dir.entries # {}
    /\ Len(results) = 1
    /\ merges = <<>>

\* C10: whenever a merge step that wrote its manifest (file_list.txt) has
\* returned, on the success, non-zero exit, timeout and other error paths
\* alike, the manifest no longer exists in the output directory.
C10_ManifestRemoved ==
    \A k \in 1..Len(merges) :
        (merges[k].manifest /\ ~merges[k].raised) => ManifestName \notin DOMAIN out_files

C10_Witness ==
    /\ Len(merges) = 3
    /\ merges[1].manifest /\ merges[1].tool = "timeout"
    /\ merges[2].manifest /\ merges[2].tool = "error"
    /\ merges[3].manifest /\ merges[3].tool = "nonzero"

(***************************************************************************)
(* Properties of the merge step's value and of the directories (Spec)      *)
(***************************************************************************)
\* C11: a merge step that succeeds returns the output file name
\* {show_name}_S{season}E{episode}.mp4 (the name, not a path), so that joining
\* it to the output directory gives the path of the produced file.
C11_SuccessCarriesFileName ==
    \A k \in 1..Len(merges) :
        merges[k].ok =>
            /\ merges[k].msg = OutputFilename(merges[k].episode)
            /\ Join(merges[k].msg) = Join(OutputFilename(merges[k].episode))

\* C12: when a merge step runs for a consistent group while the output
\* directory does not exist and can be created, the step creates the output
\* directory itself, then writes the manifest and invokes the tool.
C12_MissingOutputDirCreated ==
    [][(/\ MergeStepTaken
        /\ Last(merges').check.ok
        /\ ~out_state.dir
        /\ out_state.creatable)
          => /\ out_state'.dir
             /\ Last(merges').manifest
             /\ Last(merges').tool # "not_invoked"
      ]_vars

\* C13: when creating the output directory fails in the merge step of a
\* group, the step returns a failure for that group: it is recorded in the
\* result list and the run goes on instead of being aborted.
C13_MakedirsFailureRecorded ==
    [][(/\ MergeStepTaken
        /\ Last(merges').check.ok
        /\ ~DirnameExists(out_state)
        /\ ~out_state.creatable)
          => /\ ~Last(merges').raised
             /\ Len(results') = Len(merges')
             /\ ~Last(results').ok
             /\ pc' # "raised"
      ]_vars

\* the file alone is over an enabled threshold
ExceedsAlone(f) ==
    \/ max_duration > 0 /\ fduration[f] > max_duration
    \/ max_size > 0 /\ fsize[f] > max_size

\* C14: a file whose own duration is over max_duration (> 0) or whose own
\* size is over max_size (> 0) is the only member of its group, in every group
\* handed to the merge step and in the group being built, and when
\* merge_videos returns it has been handed to a merge step: it is not dropped.
C14_OversizedFileAlone ==
    /\ \A k \in 1..Len(merges) :
          \A i \in 1..Len(merges[k].files) :
              ExceedsAlone(merges[k].files[i]) => Len(merges[k].files) = 1
    /\ \A i \in 1..Len(current_group) :
          ExceedsAlone(current_group[i]) => Len(current_group) = 1
    /\ pc = "done" =>
          \A i \in 1..Len(file_list) :
              ExceedsAlone(file_list[i]) =>
                  \E k \in 1..Len(merges) : merges[k].files = <<file_list[i]>>

C14_Witness ==
    /\ pc = "done"
    /\ max_duration = 0
    /\ max_size > 0
    /\ Len(merges) = 3
    /\ merges[2].files = <<2>>
    /\ fsize[2] > max_size
    /\ fsize[1] <= max_size /\ fsize[3] <= max_size

\* C15: a listed file whose size cannot be read (like one whose duration
\* cannot be probed) counts as 0: the run is not aborted at that file, and
\* when merge_videos returns the file has been placed in a group.
C15_UnreadableCountsAsZero ==
    \A i \in 1..Len(file_list) :
        fsize[file_list[i]] = Unreadable =>
            /\ ~(/\ pc = "raised"
                 /\ idx = i
                 /\ (merges = <<>> \/ ~Last(merges).raised))
            /\ pc = "done" =>
                  \E k \in 1..Len(merges) :
                      \E n \in 1..Len(merges[k].files) :
                          merges[k].files[n] = file_list[i]

SourceUnusable == ~source_dir.exists \/ ListdirRaises(source_dir)

\* C16 as stated: a missing or inaccessible source directory, and likewise a
\* missing output directory, ends the run before any grouping: no file is
\* probed, no group is built and no merge step is run.
C16_DirectoriesCheckedBeforeGrouping ==
    (SourceUnusable \/ ~out_state.dir) =>
        /\ probes = <<>>
        /\ current_group = <<>>
        /\ merges = <<>>

\* C16 amended: a missing or unlistable source directory ends the run before
\* any grouping (no file is probed, no group is built, no merge step is run):
\* a missing one with the single "no files" failure, an unlistable one with
\* the error of the listing. A missing output directory is not looked at
\* before grouping: it is met in a merge step, for a group already built from
\* probed files.
C16_SourceCheckedBeforeGrouping ==
    /\ SourceUnusable =>
          /\ pc \in {"start", "done", "raised"}
          /\ file_list = <<>>
          /\ probes = <<>>
          /\ current_group = <<>>
          /\ merges = <<>>
          /\ pc = "done" => (~source_dir.exists /\ results = NoFilesResult)
          /\ pc = "raised" => source_dir.exists
    /\ (~out_state.dir /\ merges # <<>>) =>
          /\ Last(merges).files # <<>>
          /\ Len(probes) >= Len(Last(merges).files)

C16_Witness ==
    /\ pc = "done"
    /\ ~source_dir.exists
    /\ ~out_state.dir
    /\ results = NoFilesResult

\* total duration / size of a sequence of files
GroupDuration(fs) == SumOver(fduration, fs)

GroupSize(fs) == SumOver(fsize, fs)

\* adding file f to files of these totals goes over an enabled threshold
Over(dur, size, f) ==
    \/ max_duration > 0 /\ dur + fduration[f] > max_duration
    \/ max_size > 0 /\ size + fsize[f] > max_size

\* C17: a group is sealed before file f exactly when it is non-empty and
\* adding f would take the accumulated duration over max_duration (> 0) or the
\* accumulated size over max_size (> 0). So each group handed to the merge
\* step before the last is maximal (with the first file of the next group it
\* goes over an enabled threshold), no group was sealed before one of its own
\* later files although that file still fitted, a threshold of 0 never seals,
\* and with both thresholds 0 the whole list is one group.
C17_SealExactlyWhenExceeded ==
    /\ \A k \in 1..Len(merges) :
          LET g == merges[k].files
          IN  /\ \A n \in 1..(Len(g) - 1) :
                    ~Over(GroupDuration(SubSeq(g, 1, n)),
                          GroupSize(SubSeq(g, 1, n)), g[n + 1])
              /\ k < Len(merges) =>
                    Over(GroupDuration(g), GroupSize(g), merges[k + 1].files[1])
    /\ (merges # <<>> /\ current_group # <<>> /\ pc \in {"loop", "flush"}) =>
          Over(GroupDuration(Last(merges).files), GroupSize(Last(merges).files),
               current_group[1])
    /\ (max_duration = 0 /\ max_size = 0) =>
          /\ Len(merges) <= 1
          /\ (pc = "done" /\ file_list # <<>>) =>
                (Len(merges) = 1 /\ merges[1].files = file_list)

C17_Witness ==
    /\ pc = "done"
    /\ max_size = 0
    /\ max_duration = 2 * Minute
    /\ file_list = <<1, 2, 3>>
    /\ \A f \in {1, 2, 3} : fduration[f] = Minute
    /\ Len(merges) = 2
    /\ merges[1].files = <<1, 2>> /\ merges[1].episode = <<"0", "1">>
    /\ merges[2].files = <<3>> /\ merges[2].episode = <<"0", "2">>

\* C19: a merge step leaves every file that was in the output directory
\* before it unchanged and in place, whatever its outcome (a file named
\* file_list.txt included), and adds no file other than its output file.
C19_ExistingFilesUntouched ==
    [][MergeStepTaken
          => /\ \A n \in DOMAIN out_files :
                    n \in DOMAIN out_files' /\ out_files'[n] = out_files[n]
             /\ DOMAIN out_files' \subseteq
                    DOMAIN out_files \cup {OutputFilename(Last(merges').episode)}
      ]_vars

(***************************************************************************)
(* Properties of check_video_parameters_consistency (SpecCheck)            *)
(***************************************************************************)
Called == cres # NoCall

\* file i and the first file both report field k, with different values
MismatchOn(i, k) ==
    /\ k \in DOMAIN cmeta[1].md
    /\ k \in DOMAIN cmeta[i].md
    /\ cmeta[1].md[k] # cmeta[i].md[k]

Mismatches(i) == \E k \in KeySet : MismatchOn(i, k)

\* C8: for a non-empty list whose probes all succeed (a probe may report none
\* of the five fields), the checker answers true exactly when no later file
\* differs from the first on a field present on both sides.
C8_TrueIffNoMismatch ==
    (Called /\ cfiles # <<>> /\ \A i \in 1..Len(cfiles) : cmeta[i].ok)
        => (cres.ok <=> \A i \in 2..Len(cfiles) : ~Mismatches(i))

\* C9: when the checker answers false because of a mismatch, the message names
\* the first file in list order that mismatches the first file, lists every
\* mismatching field with both values, and no later file was probed.
C9_FirstMismatchFullyReported ==
    (Called /\ cres.kind = "inconsistent") =>
        \E i \in 2..Len(cfiles) :
            /\ cres.file = cfiles[i]
            /\ Mismatches(i)
            /\ \A j \in 2..(i - 1) : ~Mismatches(j)
            /\ \A k \in KeySet :
                  IF MismatchOn(i, k)
                  THEN \E n \in 1..Len(cres.fields) :
                          cres.fields[n] = <<k, cmeta[1].md[k], cmeta[i].md[k]>>
                  ELSE \A n \in 1..Len(cres.fields) : cres.fields[n][1] # k
            /\ cres.probed = SubSeq(cfiles, 1, i)

C9_Witness ==
    /\ Called
    /\ cres.kind = "inconsistent"
    /\ Len(cfiles) = 3
    /\ cres.file = cfiles[2]
    /\ Len(cres.fields) = 2
    /\ cres.fields[1][1] = "video_codec"


\* files i and j both report field k
BothHave(i, j, k) ==
    /\ cmeta[i].ok /\ cmeta[j].ok
    /\ k \in DOMAIN cmeta[i].md
    /\ k \in DOMAIN cmeta[j].md

\* C18: whenever the checker answers true for a list, every two files of the
\* list, not only the first file and another, agree on every compared field
\* that both of them report.
C18_TrueMeansPairwiseAgreement ==
    (Called /\ cres.ok) =>
        \A i \in 1..Len(cfiles) : \A j \in 1..Len(cfiles) : \A k \in KeySet :
            BothHave(i, j, k) => cmeta[i].md[k] = cmeta[j].md[k]

====
